---- MODULE Spec2Model ----
(***************************************************************************)
(* Model of tools/mpp-import-pipeline.py, the manifest pre-processor that  *)
(* resolves "mpp-import-pipeline" directives of format version "1" and     *)
(* "2" manifests.                                                          *)
(*                                                                         *)
(* JSON objects are functions from key strings to values; the empty        *)
(* object is the empty function.  The one mapping whose iteration order    *)
(* the program depends on (sources."org.osbuild.files".urls, which is      *)
(* sorted before the dump) is a sequence of <<key, value>> pairs in        *)
(* insertion order, as a Python dict keeps them.  URL strings are the      *)
(* numbers 1..MaxUrl, ordered as the strings are.                          *)
(***************************************************************************)
EXTENDS Integers, Sequences, FiniteSets, TLC

MaxDepth == 2
MaxUrl == 2
MaxPipelines == 2

VARIABLES src, files, pc, manifest, manifest_urls, manifest_todo,
          opened, stdout, status

vars == <<src, files, pc, manifest, manifest_urls, manifest_todo,
          opened, stdout, status>>

-----------------------------------------------------------------------------
(* Python values *)

Empty == <<>>
_None == [None |-> TRUE]
Unreadable == [Unreadable |-> TRUE]

MPP == "mpp-import-pipeline"
FILES == "org.osbuild.files"

Put(d, k, v) == [x \in DOMAIN d \cup {k} |-> IF x = k THEN v ELSE d[x]]
Del(d, k) == [x \in DOMAIN d \ {k} |-> d[x]]
Get(d, k) == IF k \in DOMAIN d THEN d[k] ELSE _None
GetD(d, k, default) == IF k \in DOMAIN d THEN d[k] ELSE default
Update(d, e) ==
    [x \in DOMAIN d \cup DOMAIN e |-> IF x \in DOMAIN e THEN e[x] ELSE d[x]]
Truthy(v) == v # _None /\ DOMAIN v # {}

(* insertion-ordered mapping: a sequence of <<key, value>> pairs *)
OdKeys(od) == {od[i][1] : i \in DOMAIN od}
OdGet(od, k) == od[CHOOSE i \in DOMAIN od : od[i][1] = k][2]
OdSet(od, k, v) ==
    IF k \in OdKeys(od)
    THEN [i \in DOMAIN od |-> IF od[i][1] = k THEN <<k, v>> ELSE od[i]]
    ELSE Append(od, <<k, v>>)

(* mutant: a key the mapping already has keeps its value *)
RECURSIVE OdUpdateKeep(_, _)
OdUpdateKeep(od, other) ==
    IF other = <<>> THEN od
    ELSE OdUpdateKeep(IF Head(other)[1] \in OdKeys(od) THEN od
                      ELSE Append(od, Head(other)), Tail(other))

RECURSIVE OdUpdate(_, _)
OdUpdate(od, other) ==
    IF other = <<>> THEN od
    ELSE OdUpdate(OdSet(od, Head(other)[1], Head(other)[2]), Tail(other))

-----------------------------------------------------------------------------
(* _manifest_enter: the container after the call; the call returns        *)
(* the container's value at key.                                           *)
(* mutant: the default replaces a value that is there *)
_manifest_enter_overwrite(container, key, default) == Put(container, key, default)

_manifest_enter(container, key, default) ==
    IF key \notin DOMAIN container THEN Put(container, key, default)
    ELSE container

-----------------------------------------------------------------------------
(* _sort_urls *)

isinstance_dict(v) == "str" \notin DOMAIN v

get_sort_key(item) ==
    LET key == item[2]
    IN IF isinstance_dict(key) THEN key["url"] ELSE key["str"]

(* sorted(): stable, so an item goes behind every item whose key is not    *)
(* greater                                                                 *)
RECURSIVE SortedInsert(_, _)
SortedInsert(s, item) ==
    IF s = <<>> THEN <<item>>
    ELSE IF get_sort_key(Head(s)) <= get_sort_key(item)
         THEN <<Head(s)>> \o SortedInsert(Tail(s), item)
         ELSE <<item>> \o s

RECURSIVE sorted(_)
sorted(items) ==
    IF items = <<>> THEN <<>>
    ELSE SortedInsert(sorted(SubSeq(items, 1, Len(items) - 1)),
                      items[Len(items)])

(* mutant: the mapping is left in insertion order *)
_sort_urls_unsorted(urls) == urls

_sort_urls(urls) ==
    IF urls = <<>> THEN urls
    ELSE OdUpdate(<<>>, sorted(urls))

-----------------------------------------------------------------------------
(* the build chain of a version "1" manifest *)

RECURSIVE NodeAt(_, _)
NodeAt(m, d) == IF d = 0 THEN m ELSE NodeAt(m["pipeline"]["build"], d - 1)

RECURSIVE SetNodeAt(_, _, _)
SetNodeAt(m, d, n) ==
    IF d = 0 THEN n
    ELSE Put(m, "pipeline",
             Put(m["pipeline"], "build",
                 SetNodeAt(m["pipeline"]["build"], d - 1, n)))

(* mutant: the loop does not break at the first directive *)
RECURSIVE FindImportNoBreak(_, _)
FindImportNoBreak(current, d) ==
    IF ~Truthy(current) THEN <<>>
    ELSE (IF MPP \in DOMAIN current THEN <<d>> ELSE <<>>)
         \o FindImportNoBreak(Get(GetD(current, "pipeline", Empty), "build"), d + 1)

(* the while loop of _manifest_parse_v1: the depths collected *)
RECURSIVE FindImport(_, _)
FindImport(current, d) ==
    IF ~Truthy(current) THEN <<>>
    ELSE IF MPP \in DOMAIN current THEN <<d>>
    ELSE FindImport(Get(GetD(current, "pipeline", Empty), "build"), d + 1)

(* the manifest with sources."org.osbuild.files".urls resolved *)
EnterUrls(data) ==
    LET m == _manifest_enter(data, "sources", Empty)
        s == _manifest_enter(m["sources"], FILES, Empty)
        f == _manifest_enter(s[FILES], "urls", Empty)
    IN Put(m, "sources", Put(s, FILES, f))

Urls(m) == m["sources"][FILES]["urls"]
SetUrls(m, u) ==
    Put(m, "sources", Put(m["sources"], FILES, Put(m["sources"][FILES], "urls", u)))

_manifest_parse_v1 ==
    /\ pc = "start"
    /\ GetD(src, "version", "1") = "1"
    /\ manifest' = EnterUrls(src)
    /\ manifest_urls' = "link"
    /\ manifest_todo' = FindImport(manifest', 0)
    /\ pc' = "import_v1"
    /\ UNCHANGED <<src, files, opened, stdout, status>>

(* mutant: other source kinds beside "org.osbuild.files" pass *)
sources_supported_any(imp_sources) == FILES \in DOMAIN imp_sources

(* assert list(imp_sources.keys()) == ["org.osbuild.files"] *)
sources_supported(imp_sources) == DOMAIN imp_sources = {FILES}

(* list.sort() sorts in place and returns None *)
list_sort(l) == _None

(* assert list(imp.keys()).sort() == ["pipeline", "sources"].sort() *)
toplevel_supported(imp) ==
    list_sort(DOMAIN imp) = list_sort({"pipeline", "sources"})

(* _manifest_process_v1 on the node at depth todo: [err, manifest, opened] *)
ProcessV1(m, todo, fs, op) ==
    LET node == _manifest_enter(NodeAt(m, todo), MPP, Empty)
        mpp == node[MPP]
    IN IF "path" \notin DOMAIN mpp
       THEN [err |-> "KeyError", manifest |-> m, opened |-> op]
       ELSE
       LET mpp_path == mpp["path"]
           op2 == Append(op, mpp_path)
       IN IF fs[mpp_path] = Unreadable
          THEN [err |-> "OSError", manifest |-> m, opened |-> op2]
          ELSE
          LET imp == EnterUrls(fs[mpp_path])
              imp_sources == imp["sources"]
              imp_urls == Urls(imp)
              imp2 == _manifest_enter(imp, "pipeline", Empty)
              imp_pipeline == imp2["pipeline"]
          IN IF ~sources_supported(imp_sources)
             THEN [err |-> "AssertionError", manifest |-> m, opened |-> op2]
             ELSE IF ~toplevel_supported(imp2)
             THEN [err |-> "AssertionError", manifest |-> m, opened |-> op2]
             ELSE
             LET m2 == SetUrls(m, OdUpdate(Urls(m), imp_urls))
                 todo2 == Del(Put(NodeAt(m2, todo), "pipeline", imp_pipeline), MPP)
             IN [err |-> "", manifest |-> SetNodeAt(m2, todo, todo2),
                 opened |-> op2]

_manifest_process_v1 ==
    /\ pc = "import_v1"
    /\ manifest_todo # <<>>
    /\ LET r == ProcessV1(manifest, Head(manifest_todo), files, opened)
       IN /\ manifest' = r.manifest
          /\ opened' = r.opened
          /\ IF r.err = ""
             THEN /\ manifest_todo' = Tail(manifest_todo)
                  /\ UNCHANGED <<pc, status>>
             ELSE /\ pc' = "exit"
                  /\ status' = r.err
                  /\ UNCHANGED manifest_todo
    /\ UNCHANGED <<src, files, manifest_urls, stdout>>

-----------------------------------------------------------------------------
(* version "2" *)

_manifest_parse_v2 ==
    /\ pc = "start"
    /\ GetD(src, "version", "1") = "2"
    /\ manifest' = src
    /\ manifest_todo' =
         LET pipelines == GetD(src, "pipelines", <<>>)
         IN SelectSeq([i \in DOMAIN pipelines |-> i],
                      LAMBDA i : Truthy(Get(pipelines[i], MPP)))
    /\ pc' = "import_v2"
    /\ UNCHANGED <<src, files, manifest_urls, opened, stdout, status>>

(* the body of the source loop for a source the manifest already has *)
MergeDesc(target, desc) ==
    LET t1 == IF Truthy(Get(desc, "options"))
              THEN LET t == _manifest_enter(target, "options", Empty)
                   IN Put(t, "options", Update(t["options"], desc["options"]))
              ELSE target
        t2 == _manifest_enter(t1, "items", Empty)
    IN Put(t2, "items", Update(t2["items"], GetD(desc, "items", Empty)))

(* the source loop of _manifest_process_v2 *)
MergeSources(sources, imp_sources) ==
    [source \in DOMAIN sources \cup DOMAIN imp_sources |->
       IF source \notin DOMAIN imp_sources THEN sources[source]
       ELSE IF ~Truthy(Get(sources, source)) THEN imp_sources[source]
       ELSE MergeDesc(sources[source], imp_sources[source])]

KeyError == [KeyError |-> TRUE]

(* the pipeline loop of _manifest_process_v2 *)
RECURSIVE FindPipeline(_, _)
FindPipeline(pipelines, pid) ==
    IF pipelines = <<>> THEN _None
    ELSE IF "name" \notin DOMAIN Head(pipelines) THEN KeyError
    ELSE IF Head(pipelines)["name"] = pid THEN Head(pipelines)
    ELSE FindPipeline(Tail(pipelines), pid)

(* mutant: the importing entry's fields win *)
SpliceKeep(todo, target) == Del(Update(target, todo), MPP)

(* todo.update(target); del(todo["mpp-import-pipeline"]) *)
Splice(todo, target) == Del(Update(todo, target), MPP)

(* _manifest_process_v2 on pipelines entry i: [err, manifest, opened] *)
ProcessV2(m, i, fs, op) ==
    LET m1 == _manifest_enter(m, "sources", Empty)
        sources == m1["sources"]
        todo == m1["pipelines"][i]
        mpp == todo[MPP]
    IN IF "path" \notin DOMAIN mpp
       THEN [err |-> "KeyError", manifest |-> m1, opened |-> op]
       ELSE
       LET path == mpp["path"]
           op2 == Append(op, path)
       IN IF fs[path] = Unreadable
          THEN [err |-> "OSError", manifest |-> m1, opened |-> op2]
          ELSE
          LET imp == fs[path]
              m2 == Put(m1, "sources",
                        MergeSources(sources, GetD(imp, "sources", Empty)))
              pipelines == GetD(imp, "pipelines", <<>>)
          IN IF "id" \notin DOMAIN mpp
             THEN [err |-> "KeyError", manifest |-> m2, opened |-> op2]
             ELSE
             LET target == FindPipeline(pipelines, mpp["id"])
             IN IF target = KeyError
                THEN [err |-> "KeyError", manifest |-> m2, opened |-> op2]
                ELSE IF ~Truthy(target)
                THEN [err |-> "ValueError", manifest |-> m2, opened |-> op2]
                ELSE [err |-> "",
                      manifest |->
                        Put(m2, "pipelines",
                            [m2["pipelines"] EXCEPT ![i] = Splice(todo, target)]),
                      opened |-> op2]

_manifest_process_v2 ==
    /\ pc = "import_v2"
    /\ manifest_todo # <<>>
    /\ LET r == ProcessV2(manifest, Head(manifest_todo), files, opened)
       IN /\ manifest' = r.manifest
          /\ opened' = r.opened
          /\ IF r.err = ""
             THEN /\ manifest_todo' = Tail(manifest_todo)
                  /\ UNCHANGED <<pc, status>>
             ELSE /\ pc' = "exit"
                  /\ status' = r.err
                  /\ UNCHANGED manifest_todo
    /\ UNCHANGED <<src, files, manifest_urls, stdout>>

-----------------------------------------------------------------------------
(* _main_process *)

_main_unsupported ==
    /\ pc = "start"
    /\ GetD(src, "version", "1") \notin {"1", "2"}
    /\ pc' = "exit"
    /\ status' = "1"
    /\ UNCHANGED <<src, files, manifest, manifest_urls, manifest_todo,
                   opened, stdout>>

(* mutant: the manifest is dumped while directives are left *)
_main_dump_early ==
    /\ pc \in {"import_v1", "import_v2"}
    /\ manifest' = manifest
    /\ stdout' = Append(stdout, manifest')
    /\ UNCHANGED <<src, files, pc, status, manifest_urls, manifest_todo, opened>>

_main_dump ==
    /\ pc \in {"import_v1", "import_v2"}
    /\ manifest_todo = <<>>
    /\ manifest' = IF manifest_urls = "link"
                   THEN SetUrls(manifest, _sort_urls(Urls(manifest)))
                   ELSE manifest
    /\ stdout' = Append(stdout, manifest')
    /\ pc' = "exit"
    /\ status' = "0"
    /\ UNCHANGED <<src, files, manifest_urls, manifest_todo, opened>>

-----------------------------------------------------------------------------
(* inputs *)

OptKey(D, k, V) == D \cup {Put(d, k, v) : d \in D, v \in V}

Paths == {"base.json", "other.json"}

UrlStr(n) == [str |-> n]
UrlDict(n) == [url |-> n, etag |-> "x"]
UrlValues == {UrlStr(n) : n \in 1..MaxUrl} \cup {UrlDict(n) : n \in 1..MaxUrl}

UrlMaps(K) ==
    {<<>>} \cup {<< <<k, v>> >> : k \in K, v \in UrlValues}
    \cup {<< <<k[1], v[1]>>, <<k[2], v[2]>> >> :
            k \in {kk \in K \X K : kk[1] # kk[2]}, v \in UrlValues \X UrlValues}

FilesSource(u) == Put(Empty, FILES, [urls |-> u])

Directives1 == {Empty} \cup {[path |-> p] : p \in Paths}

RECURSIVE Nodes(_)
Nodes(n) ==
    LET pipes == IF n = 0 THEN {[stages |-> "own"]}
                 ELSE OptKey({[stages |-> "own"]}, "build", Nodes(n - 1))
    IN OptKey(OptKey({[runner |-> "r"]}, "pipeline", pipes), MPP, Directives1)

ImpPipeline == [stages |-> "imp", build |-> Put([runner |-> "r"], MPP, [path |-> "other.json"])]

ImportsV1 ==
    LET kinds == {Empty, Put(Empty, FILES, Empty),
                  FilesSource(<< <<"k2", UrlStr(1)>> >>),
                  [other |-> Empty],
                  Put(FilesSource(<< <<"k2", UrlStr(1)>> >>), "other", Empty)}
    IN OptKey(OptKey(OptKey({Empty}, "sources", kinds),
                     "pipeline", {ImpPipeline}), "version", {"1"})
       \cup {Unreadable}

OtherFile == [sources |-> FilesSource(<< <<"k9", UrlStr(1)>> >>),
              pipeline |-> [stages |-> "other"]]

(* version "1": every build chain, few sources *)
InitChain ==
    /\ src \in OptKey(OptKey(Nodes(MaxDepth), "version", {"1"}), "sources",
                      {FilesSource(<< <<"k1", UrlStr(MaxUrl)>> >>)})
    /\ files \in {[p \in Paths |-> IF p = "base.json" THEN f ELSE OtherFile] :
                    f \in ImportsV1}

(* version "1": every pair of urls mappings, a directive at the root or none *)
InitUrls ==
    /\ \E u \in UrlMaps({"k1", "k2"}) :
         src \in OptKey({[sources |-> FilesSource(u),
                          pipeline |-> [stages |-> "own"]]},
                        MPP, {[path |-> "base.json"]})
    /\ \E u \in UrlMaps({"k2", "k3"}) :
         files = [p \in Paths |->
                    IF p = "base.json"
                    THEN [sources |-> FilesSource(u), pipeline |-> ImpPipeline]
                    ELSE OtherFile]

CURL == "org.osbuild.curl"
INLINE == "org.osbuild.inline"

Directives2 ==
    {Empty, [path |-> "base.json"], [id |-> "stage1"],
     [path |-> "base.json", id |-> "stage1"],
     [path |-> "base.json", id |-> "missing"],
     [path |-> "other.json", id |-> "stage1"]}

Entries2 == OptKey(OptKey({[name |-> "build"]}, "stages", {"own"}), MPP, Directives2)

RECURSIVE SeqsUpTo(_, _)
SeqsUpTo(S, n) ==
    IF n = 0 THEN {<<>>}
    ELSE SeqsUpTo(S, n - 1)
         \cup {Append(s, e) : s \in {t \in SeqsUpTo(S, n - 1) : Len(t) = n - 1},
                               e \in S}

ExampleEntry ==
    Put([name |-> "build"], MPP, [path |-> "base.json", id |-> "stage1"])

Stage1 == [name |-> "stage1", type |-> "org.osbuild.foo"]

ExampleSources == Put(Empty, CURL, [items |-> [a |-> Empty]])

ImportsV2 ==
    OptKey(OptKey({Empty}, "sources", {ExampleSources}), "pipelines",
           {<<>>, <<Stage1>>, <<[name |-> "stage0"], Stage1>>,
            <<[type |-> "nameless"], Stage1>>,
            <<Put(Put(Stage1, MPP, [path |-> "other.json", id |-> "x"]),
                  "stages", "imp")>>})
    \cup {Unreadable}

OtherFile2 == [sources |-> Put(Empty, INLINE, [items |-> [z |-> Empty]]),
               pipelines |-> <<[name |-> "stage1", type |-> "other"]>>]

(* version "2": every pipelines sequence, few sources *)
InitPipelines ==
    /\ src \in OptKey(OptKey({[version |-> "2"]}, "pipelines",
                             SeqsUpTo(Entries2, MaxPipelines)),
                      "sources", {Put(Empty, CURL, [items |-> [b |-> [v |-> "own"]]])})
    /\ files \in {[p \in Paths |-> IF p = "base.json" THEN f ELSE OtherFile2] :
                    f \in ImportsV2}

Item(tag) == [v |-> tag]

Descs(tag, O, I) ==
    OptKey(OptKey(OptKey({Empty}, "options",
                         {Empty} \cup {[k \in K |-> tag] : K \in SUBSET O \ {{}}}),
                  "items",
                  {Empty} \cup {[k \in K |-> Item(tag)] : K \in SUBSET I \ {{}}}),
           "extra", {tag})

Sources2(D) ==
    OptKey(OptKey({Empty}, CURL, D), INLINE, {[items |-> [z |-> Empty]]})

(* version "2": one import, every pair of sources *)
InitSources ==
    /\ src \in OptKey({[version |-> "2", pipelines |-> <<ExampleEntry>>]},
                      "sources", Sources2(Descs("own", {"o1", "o2"}, {"a", "b"})))
    /\ files \in {[p \in Paths |->
                     IF p = "base.json"
                     THEN Put([pipelines |-> <<Stage1>>], "sources", s)
                     ELSE OtherFile2] :
                    s \in Sources2(Descs("imp", {"o2", "o3"}, {"b", "c"}))}

InitOther ==
    /\ src \in OptKey({Put([version |-> "3"], MPP, [path |-> "base.json"])},
                      "sources", {Empty})
    /\ files \in {[p \in Paths |-> f] : f \in {Unreadable, OtherFile}}

Init ==
    /\ \/ InitChain
       \/ InitUrls
       \/ InitPipelines
       \/ InitSources
       \/ InitOther
    /\ pc = "start"
    /\ manifest = _None
    /\ manifest_urls = "None"
    /\ manifest_todo = <<>>
    /\ opened = <<>>
    /\ stdout = <<>>
    /\ status = ""

Next ==
    \/ _manifest_parse_v1
    \/ _manifest_process_v1
    \/ _manifest_parse_v2
    \/ _manifest_process_v2
    \/ _main_unsupported
    \/ _main_dump

Spec == Init /\ [][Next]_vars

-----------------------------------------------------------------------------
(* properties *)

Version == GetD(src, "version", "1")
Done == pc = "exit" /\ status = "0"
Emitted == stdout[1]

OdMap(od) == [k \in OdKeys(od) |-> OdGet(od, k)]

HasUrls(m) ==
    /\ "sources" \in DOMAIN m
    /\ FILES \in DOMAIN m["sources"]
    /\ "urls" \in DOMAIN m["sources"][FILES]

(* a manifest as a document: the order of the urls mapping dropped *)
Doc(m) == IF HasUrls(m) THEN SetUrls(m, OdMap(Urls(m))) ELSE m

(* the nodes of the build chain, root first *)
RECURSIVE Chain(_)
Chain(node) ==
    IF "pipeline" \in DOMAIN node /\ "build" \in DOMAIN node["pipeline"]
    THEN <<node>> \o Chain(node["pipeline"]["build"])
    ELSE <<node>>

UrlOf(v) == IF "url" \in DOMAIN v THEN v["url"] ELSE v["str"]
Ascending(od) ==
    \A i, j \in DOMAIN od : i < j => UrlOf(od[i][2]) <= UrlOf(od[j][2])

ExampleInput == [version |-> "2", pipelines |-> <<ExampleEntry>>]
ExampleBase == [pipelines |-> <<Stage1>>, sources |-> ExampleSources]
IsExample == src = ExampleInput /\ files["base.json"] = ExampleBase

(* C1, as stated: the run on the end-to-end example emits sources equal to *)
(* the imported sources and the one pipelines entry                        *)
(* {name: "build", type: "org.osbuild.foo"}.                               *)
C1_Original ==
    (IsExample /\ pc = "exit") =>
        stdout = <<[version |-> "2", sources |-> ExampleSources,
                    pipelines |-> <<[name |-> "build",
                                     type |-> "org.osbuild.foo"]>>]>>

(* C1, amended: the run on the end-to-end example succeeds and emits       *)
(* sources equal to the imported sources and the one pipelines entry       *)
(* {name: "stage1", type: "org.osbuild.foo"}: the imported entry's fields, *)
(* its name included, overwrite the importing entry's, and the directive   *)
(* is gone.                                                                *)
C1_Amended ==
    (IsExample /\ pc = "exit") =>
        /\ status = "0"
        /\ stdout = <<[version |-> "2", sources |-> ExampleSources,
                       pipelines |-> <<[name |-> "stage1",
                                        type |-> "org.osbuild.foo"]>>]>>

C1_Witness == IsExample /\ pc = "exit" /\ stdout # <<>>

(* C2: no version "2" run ends successfully with the directive key still   *)
(* present in a pipelines entry that had it in the input.                  *)
C2_NoDirectiveLeft ==
    (Version = "2" /\ Done) =>
        \A i \in DOMAIN GetD(src, "pipelines", <<>>) :
            MPP \in DOMAIN src["pipelines"][i]
                => MPP \notin DOMAIN Emitted["pipelines"][i]

(* C3: output is written at most once, only by a run whose version was     *)
(* accepted and whose collected directives were all processed without      *)
(* error; an unsupported version exits with status 1, nothing written and  *)
(* no import file opened; a failed directive leaves nothing written.       *)
C3_OutputOnlyAfterSuccess ==
    /\ Len(stdout) <= 1
    /\ stdout # <<>> =>
         /\ Version \in {"1", "2"}
         /\ manifest_todo = <<>>
         /\ Done
    /\ (Version \notin {"1", "2"} /\ pc = "exit") =>
         status = "1" /\ stdout = <<>> /\ opened = <<>>
    /\ status \notin {"", "0"} => pc = "exit" /\ stdout = <<>>

C3_Witness ==
    /\ pc = "exit"
    /\ status \in {"KeyError", "ValueError"}
    /\ stdout = <<>>
    /\ opened # <<>>
    /\ manifest["sources"] # GetD(src, "sources", Empty)

Loaded1 == Version = "1" /\ opened # <<>> /\ files[opened[1]] # Unreadable
NothingMerged1 ==
    status = "AssertionError" /\ pc = "exit" /\ manifest = EnterUrls(src)

(* C4: a version "1" import whose referenced manifest's top-level keys are *)
(* not exactly {pipeline, sources} is a hard failure; stated for the case  *)
(* the claim names: a referenced manifest carrying an additional top-level *)
(* key aborts the run, and nothing of it is merged.                        *)
C4_TopLevelKeysEnforced ==
    (Loaded1 /\ ~(DOMAIN files[opened[1]] \subseteq {"pipeline", "sources"}))
        => NothingMerged1

(* the source kinds of a referenced manifest as loaded from the file *)
Kinds(f) == IF "sources" \in DOMAIN f THEN DOMAIN f["sources"] ELSE {}

(* C5, as stated: a version "1" import whose referenced manifest's sources,*)
(* as loaded, are not exactly {org.osbuild.files} is a fatal validation    *)
(* failure, and nothing of it is merged.                                   *)
C5_Original ==
    (Loaded1 /\ Kinds(files[opened[1]]) # {FILES}) => NothingMerged1

(* C5, amended: a version "1" import whose referenced manifest's sources,  *)
(* as loaded, hold a kind other than org.osbuild.files (instead of it or   *)
(* beside it) is a fatal validation failure, and nothing of it is merged;  *)
(* sources that are absent or hold no kind at all pass the validation.     *)
C5_Amended ==
    (Loaded1 /\ ~(Kinds(files[opened[1]]) \subseteq {FILES})) => NothingMerged1

C5_Witness ==
    /\ Loaded1
    /\ Kinds(files[opened[1]]) = {FILES, "other"}
    /\ status = "AssertionError"

NoDirective == \A i \in DOMAIN Chain(src) : MPP \notin DOMAIN Chain(src)[i]

(* C6, as stated: a version "1" manifest with no directive in the build    *)
(* chain is emitted equal to the input as a document.                      *)
C6_Original ==
    (Version = "1" /\ NoDirective /\ Done) => Doc(Emitted) = Doc(src)

(* the input with the path sources."org.osbuild.files".urls created *)
WithUrlsPath(m) ==
    LET s == IF "sources" \in DOMAIN m THEN m["sources"] ELSE Empty
        f == IF FILES \in DOMAIN s THEN s[FILES] ELSE Empty
        u == IF "urls" \in DOMAIN f THEN f["urls"] ELSE <<>>
    IN [k \in DOMAIN m \cup {"sources"} |->
          IF k # "sources" THEN m[k]
          ELSE [k2 \in DOMAIN s \cup {FILES} |->
                  IF k2 # FILES THEN s[k2]
                  ELSE [k3 \in DOMAIN f \cup {"urls"} |->
                          IF k3 # "urls" THEN f[k3] ELSE u]]]

(* C6, amended: a version "1" manifest with no directive in the build      *)
(* chain is emitted equal, as a document, to the input with the path       *)
(* sources."org.osbuild.files".urls created as empty mappings where it is  *)
(* absent; no other key is added, removed or changed.                      *)
C6_Amended ==
    (Version = "1" /\ NoDirective /\ Done) =>
        stdout = <<manifest>> /\ Doc(Emitted) = Doc(WithUrlsPath(src))

C6_Witness ==
    Version = "1" /\ NoDirective /\ Done /\ "sources" \notin DOMAIN src

(* C7: the dump of a successful version "1" run follows a sort of the urls *)
(* mapping: the emitted mapping iterates in ascending order of URL, and    *)
(* has the keys and values of the merged mapping before the sort.          *)
C7_SortedPermutation ==
    [][(Version = "1" /\ pc' = "exit" /\ status' = "0") =>
          /\ stdout' = <<manifest'>>
          /\ Ascending(Urls(manifest'))
          /\ Len(Urls(manifest')) = Len(Urls(manifest))
          /\ Cardinality(OdKeys(Urls(manifest'))) = Len(Urls(manifest'))
          /\ OdMap(Urls(manifest')) = OdMap(Urls(manifest))]_vars

C7_Witness ==
    /\ Version = "1" /\ Done
    /\ HasUrls(src) /\ ~Ascending(Urls(src))
    /\ Len(Urls(Emitted)) >= 2
    /\ \E i \in DOMAIN Urls(Emitted) : "url" \in DOMAIN Urls(Emitted)[i][2]

(* a step of _manifest_process_v1 that succeeds *)
Imported1 == pc = "import_v1" /\ manifest_todo # <<>> /\ pc' = "import_v1"

Frame(i) == IF i = 1 THEN {"pipeline", "sources"} ELSE {"pipeline"}

(* C8: a version "1" run processes only the shallowest directive: the node *)
(* holding it gets its pipeline replaced by the referenced manifest's and  *)
(* loses the directive, the shallower nodes keep their keys and values     *)
(* outside the path to it, only the root's sources change beside, and no   *)
(* other directive is collected or loaded.                                 *)
C8_ShallowestOnly ==
    [][/\ Version = "1" => Len(manifest_todo') <= 1 /\ Len(opened') <= 1
       /\ Imported1 =>
            LET d == Head(manifest_todo) + 1
                old == Chain(manifest)
                new == Chain(manifest')
                path == old[d][MPP]["path"]
            IN /\ d <= Len(Chain(src))
               /\ MPP \in DOMAIN Chain(src)[d]
               /\ \A i \in 1..(d - 1) : MPP \notin DOMAIN Chain(src)[i]
               /\ manifest_todo' = <<>>
               /\ opened' = <<path>>
               /\ Len(new) >= d
               /\ new[d]["pipeline"] = GetD(files[path], "pipeline", Empty)
               /\ DOMAIN new[d] = (DOMAIN old[d] \ {MPP}) \cup {"pipeline"}
               /\ \A k \in DOMAIN new[d] \ Frame(d) : new[d][k] = old[d][k]
               /\ \A i \in 1..(d - 1) :
                    /\ DOMAIN new[i] = DOMAIN old[i]
                    /\ \A k \in DOMAIN old[i] \ Frame(i) : new[i][k] = old[i][k]
                    /\ DOMAIN new[i]["pipeline"] = DOMAIN old[i]["pipeline"]
                    /\ \A k \in DOMAIN old[i]["pipeline"] \ {"build"} :
                         new[i]["pipeline"][k] = old[i]["pipeline"][k]
               /\ DOMAIN manifest' = (DOMAIN manifest \ {MPP}) \cup (IF d = 1 THEN {"pipeline"} ELSE {})
      ]_vars

C8_Witness ==
    /\ pc = "import_v1" /\ manifest_todo = <<>> /\ opened = <<"base.json">>
    /\ Len(Chain(src)) = 3
    /\ MPP \notin DOMAIN Chain(src)[1]
    /\ Chain(src)[1]["pipeline"]["stages"] = "own"
    /\ MPP \in DOMAIN Chain(src)[2]
    /\ Get(Chain(src)[3], MPP) = [path |-> "other.json"]
    /\ Get(files["base.json"], "pipeline") = ImpPipeline
    /\ Chain(manifest)[2]["pipeline"] = ImpPipeline

ImpUrls(f) == IF HasUrls(f) THEN Urls(f) ELSE <<>>

(* C9: a version "1" import that succeeds leaves the root urls mapping     *)
(* with the union of its previous keys and the referenced manifest's; a    *)
(* key of the referenced manifest is bound to the referenced manifest's    *)
(* whole value, any other key keeps its value.                             *)
C9_UrlsMerged ==
    [][Imported1 =>
          LET old == OdMap(Urls(manifest))
              imp == OdMap(ImpUrls(files[opened'[1]]))
              new == OdMap(Urls(manifest'))
          IN /\ Cardinality(DOMAIN new) = Len(Urls(manifest'))
             /\ DOMAIN new = DOMAIN old \cup DOMAIN imp
             /\ \A k \in DOMAIN imp : new[k] = imp[k]
             /\ \A k \in DOMAIN old \ DOMAIN imp : new[k] = old[k]]_vars

C9_Witness ==
    /\ pc = "import_v1" /\ manifest_todo = <<>> /\ opened = <<"base.json">>
    /\ HasUrls(src) /\ HasUrls(files["base.json"])
    /\ "k1" \in OdKeys(Urls(src))
    /\ "k3" \in OdKeys(Urls(files["base.json"]))
    /\ "k2" \in OdKeys(Urls(src)) \cap OdKeys(Urls(files["base.json"]))
    /\ OdGet(Urls(src), "k2") # OdGet(Urls(files["base.json"]), "k2")

(* a step of _manifest_process_v2 that loads the referenced manifest *)
Loaded2 ==
    /\ pc = "import_v2" /\ manifest_todo # <<>>
    /\ opened' # opened
    /\ files[opened'[Len(opened')]] # Unreadable

MergedInto(old, inc, new) ==
    /\ GetD(new, "items", Empty) = Update(GetD(old, "items", Empty), GetD(inc, "items", Empty))
    /\ GetD(new, "options", Empty) = Update(GetD(old, "options", Empty), GetD(inc, "options", Empty))
    /\ DOMAIN new \subseteq DOMAIN old \cup {"items", "options"}
    /\ \A k \in DOMAIN old \ {"items", "options"} : k \in DOMAIN new /\ new[k] = old[k]

(* C10: a version "2" import copies a source kind the manifest lacks       *)
(* wholesale; a kind the manifest has keeps its descriptor, with items and *)
(* options the union of both sides, the incoming value winning per key,    *)
(* and no other field changed; kinds only the manifest has are unchanged.  *)
C10_SourcesMerged ==
    [][Loaded2 =>
          LET old == GetD(manifest, "sources", Empty)
              inc == GetD(files[opened'[Len(opened')]], "sources", Empty)
              new == manifest'["sources"]
          IN /\ DOMAIN new = DOMAIN old \cup DOMAIN inc
             /\ \A k \in DOMAIN old \ DOMAIN inc : new[k] = old[k]
             /\ \A k \in DOMAIN inc \ DOMAIN old : new[k] = inc[k]
             /\ \A k \in DOMAIN inc \cap DOMAIN old :
                  MergedInto(old[k], inc[k], new[k])]_vars

(* the same with the descriptors the manifest has restricted to the ones   *)
(* that are not empty: the part of C10 the code keeps                      *)
C10_NonEmptyMerged ==
    [][Loaded2 =>
          LET old == GetD(manifest, "sources", Empty)
              inc == GetD(files[opened'[Len(opened')]], "sources", Empty)
              new == manifest'["sources"]
          IN /\ DOMAIN new = DOMAIN old \cup DOMAIN inc
             /\ \A k \in DOMAIN old \ DOMAIN inc : new[k] = old[k]
             /\ \A k \in DOMAIN inc \ DOMAIN old : new[k] = inc[k]
             /\ \A k \in DOMAIN inc \cap DOMAIN old :
                  IF old[k] = Empty THEN new[k] = inc[k]
                  ELSE MergedInto(old[k], inc[k], new[k])]_vars

====
